---- MODULE Spec2Model ----
(***************************************************************************)
(* A state-machine model of the Crunch-Mania decompressor                  *)
(* (src/src/CRMDecompressor.cpp) and of the two Huffman decoder variants   *)
(* it uses (src/src/HuffmanDecoder.hpp).                                   *)
(*                                                                         *)
(* Three specifications:                                                   *)
(*   Spec      construction of a CRMDecompressor from a packed buffer and  *)
(*             one decompress call, one action per loop iteration;         *)
(*   SpecHuff  insert and decode calls on a flat and a dynamic Huffman     *)
(*             table;                                                      *)
(*   SpecLen   the standard-mode length decode over every (length class,   *)
(*             extra bits) pair.                                           *)
(*                                                                         *)
(* The packed buffer is an input.  Its header bytes are state; a payload   *)
(* byte is chosen when the decoder first reads it: bufOffset only ever     *)
(* decreases, so no payload byte is read twice and choosing it at the read *)
(* is the same as fixing the whole buffer before the call.  The operators  *)
(* that read bits therefore return the SET of their possible results, one  *)
(* per choice of the bytes they pull.                                      *)
(*                                                                         *)
(* The raw buffer is modelled by which of its indices have been written    *)
(* and in what order; no branch of the decoder depends on the byte values  *)
(* stored in it.                                                           *)
(***************************************************************************)
EXTENDS Integers, Sequences, FiniteSets, TLC

VARIABLES
    pc,          \* position of the caller/decoder
    packed,      \* the packed buffer: [size, sig, rawSize, packedSize] (header fields as stored)
    obj,         \* the CRMDecompressor fields: _rawSize, _packedSize, _isSampled, _isLZH
    rawDataSize, \* rawData.size() of the decompress call
    rd,          \* bit reader: bufOffset, bufBitsContent, bufBitsLength (+ indices read as data)
    destOffset,  \* destOffset of decompressImpl
    written,     \* the indices of dest written so far, in order
    lastCopy,    \* the parameters and the (write, read) pairs of the last match copy
    lz,          \* locals of the LZH block loop and of the standard literal run
    huff,        \* SpecHuff: the two tables and what was inserted and decoded
    ls           \* SpecLen: the scan over the length-class inputs

vars == <<pc, packed, obj, rawDataSize, rd, destOffset, written, lastCopy, lz, huff, ls>>

(***************************************************************************)
(* Bounds of the model.                                                    *)
(***************************************************************************)
\* largest rawSize the constructor accepts in the model
MaxRaw == 15
\* largest packedSize the constructor accepts in the model
MaxPacked == 22
\* rawSize of the small streams (literals and one match)
SmallRaw == 5
\* packedSize of the small streams
SmallPacked == 9

(***************************************************************************)
(* Integer helpers: the C++ operators on unsigned integers.                *)
(***************************************************************************)
Pow2(n) == 2^n

Shr(x, n) == x \div Pow2(n)

Min(a, b) == IF a < b THEN a ELSE b

\* bit k (0 = least significant) of x
Bit(x, k) == (x \div Pow2(k)) % 2

RECURSIVE BitOr(_, _)
BitOr(a, b) ==
    IF a = 0 THEN b
    ELSE IF b = 0 THEN a
    ELSE (IF a % 2 = 1 \/ b % 2 = 1 THEN 1 ELSE 0) + 2 * BitOr(a \div 2, b \div 2)

U8(x) == x % 256

(***************************************************************************)
(* bufBitsContent is a uint32_t whose value can exceed 2^31 - 1, so it is  *)
(* kept as its 32 bits: element k + 1 is bit k.  Every other 32-bit        *)
(* quantity of the model stays far below 2^31 and is an integer.           *)
(***************************************************************************)
\* uint32_t(b) for a byte b
WordOfByte(b) == [k \in 1..32 |-> IF k <= 8 THEN Bit(b, k - 1) ELSE 0]

\* the big-endian 32-bit word b0 b1 b2 b3
WordBE32(b0, b1, b2, b3) ==
    [k \in 1..32 |-> IF k <= 8 THEN Bit(b3, k - 1)
                     ELSE IF k <= 16 THEN Bit(b2, k - 9)
                     ELSE IF k <= 24 THEN Bit(b1, k - 17)
                     ELSE Bit(b0, k - 25)]

\* w >> n, 0 <= n
WordShr(w, n) == [k \in 1..32 |-> IF k + n <= 32 THEN w[k + n] ELSE 0]

\* w | (uint32_t(b) << n), 0 <= n
WordOrByte(w, b, n) ==
    [k \in 1..32 |-> IF k - 1 >= n /\ k - 1 < n + 8 /\ Bit(b, k - 1 - n) = 1 THEN 1 ELSE w[k]]

\* w & ((1 << n) - 1) as an integer, n <= 30
RECURSIVE WordLow(_, _)
WordLow(w, n) == IF n = 0 THEN 0 ELSE w[1] + 2 * WordLow(Tail(w), n - 1)

WordZero == [k \in 1..32 |-> 0]

BE16(b0, b1) == b0 * 256 + b1

BE32(b0, b1, b2, b3) == ((b0 * 256 + b1) * 256 + b2) * 256 + b3

\* byte k (0 = most significant) of the big-endian 32-bit encoding of x
BE32Byte(x, k) == (x \div Pow2(8 * (3 - k))) % 256

FourCC(s) == BE32(s[1], s[2], s[3], s[4])

(***************************************************************************)
(* Characters and signatures.                                              *)
(***************************************************************************)
ChC == 67
ChR == 82
Chr == 114
ChM == 77
Chm == 109
ChBang == 33
Ch2 == 50

SigCrMBang == <<ChC, Chr, ChM, ChBang>>
SigCrM2 == <<ChC, Chr, ChM, Ch2>>
SigCrmBang == <<ChC, Chr, Chm, ChBang>>
SigCrm2 == <<ChC, Chr, Chm, Ch2>>
SigXpkCRM2 == <<ChC, ChR, ChM, Ch2>>
SigCmMBang == <<ChC, Chm, ChM, ChBang>>

detectHeader(hdr) ==
    hdr \in {FourCC(SigCrMBang), FourCC(SigCrM2), FourCC(SigCrmBang), FourCC(SigCrm2)}

getMaxRawSize == MaxRaw

getMaxPackedSize == MaxPacked

(***************************************************************************)
(* The packed buffer.  Bytes 0..13 are the header; bytes 4 and 5 are never *)
(* read by the decoder.  A payload byte (index >= 14) is one of ByteSet,   *)
(* or 0xF6 (the head of a literal-run token) in a standard-mode stream.    *)
(***************************************************************************)
ByteSet == {0, 4, 35, 178}

StdByteSet == ByteSet \cup {246}

PayloadSet(p) == IF p.sig[4] = Ch2 THEN ByteSet ELSE StdByteSet

HeaderByte(p, idx) ==
    IF idx < 4 THEN p.sig[idx + 1]
    ELSE IF idx < 6 THEN 0
    ELSE IF idx < 10 THEN BE32Byte(p.rawSize, idx - 6)
    ELSE BE32Byte(p.packedSize, idx - 10)

\* the values of the low byte of the trailing originalShift word
ShiftLowSet == {0, 16, 17}

\* the values the byte at idx can hold: a header byte is what the header says,
\* the trailing 16-bit word of the payload is 0x00 followed by one of
\* ShiftLowSet, any other payload byte is one of PayloadSet(p)
ByteAt(p, idx) ==
    IF idx < 14 THEN {HeaderByte(p, idx)}
    ELSE IF idx = p.packedSize + 13 THEN ShiftLowSet
    ELSE IF idx = p.packedSize + 12 THEN {0}
    ELSE PayloadSet(p)

(***************************************************************************)
(* The bit reader of decompressImpl: readBit and readBits.  A result is    *)
(* [r, v, ok]: the reader afterwards, the value returned, and ok = FALSE   *)
(* when DecompressionError was thrown.                                     *)
(***************************************************************************)
Thrown(r) == [r |-> r, v |-> 0, ok |-> FALSE]

Returned(r, v) == [r |-> r, v |-> v, ok |-> TRUE]

\* bufBitsContent=uint32_t(bufPtr[--bufOffset]); bufBitsLength=8;
ReadBitRefill(r, b) ==
    [r EXCEPT !.bufOffset = @ - 1, !.bufBitsContent = WordOfByte(b), !.bufBitsLength = 8,
              !.used = @ \cup {r.bufOffset - 1}]

\* ret=bufBitsContent&1; bufBitsContent>>=1; bufBitsLength--;
TakeBit(r) ==
    Returned([r EXCEPT !.bufBitsContent = WordShr(@, 1), !.bufBitsLength = U8(@ - 1)],
             r.bufBitsContent[1])

ReadBit(p, r) ==
    IF r.bufBitsLength = 0
    THEN IF r.bufOffset <= 14
         THEN {Thrown(r)}
         ELSE {TakeBit(ReadBitRefill(r, b)) : b \in ByteAt(p, r.bufOffset - 1)}
    ELSE {TakeBit(r)}

\* bufBitsContent|=uint32_t(bufPtr[--bufOffset])<<bufBitsLength; bufBitsLength+=8;
ReadBitsRefill(r, b) ==
    [r EXCEPT !.bufOffset = @ - 1,
              !.bufBitsContent = WordOrByte(@, b, r.bufBitsLength),
              !.bufBitsLength = U8(@ + 8),
              !.used = @ \cup {r.bufOffset - 1}]

\* the while loop of readBits: the readers it can end in, or a throw
RECURSIVE FillBits(_, _, _)
FillBits(p, r, count) ==
    IF r.bufBitsLength < count
    THEN IF r.bufOffset <= 14
         THEN {Thrown(r)}
         ELSE UNION {FillBits(p, ReadBitsRefill(r, b), count) : b \in ByteAt(p, r.bufOffset - 1)}
    ELSE {Returned(r, 0)}

\* ret=bufBitsContent&((1<<count)-1); bufBitsContent>>=count; bufBitsLength-=count;
TakeBits(r, count) ==
    Returned([r EXCEPT !.bufBitsContent = WordShr(@, count), !.bufBitsLength = U8(@ - count)],
             WordLow(r.bufBitsContent, count))

ReadBits(p, r, count) ==
    {IF f.ok THEN TakeBits(f.r, count) ELSE f : f \in FillBits(p, r, count)}

(***************************************************************************)
(* HuffmanDecoder<T,emptyValue,depth>: the flat variant.  _table is a      *)
(* sequence; C++ index i is element i + 1.  A code is [length, code,       *)
(* value].                                                                 *)
(***************************************************************************)
FlatLength(depth) == 2 * Pow2(depth) - 2

FlatEmpty(depth, emptyValue) == [i \in 1..FlatLength(depth) |-> emptyValue]

\* the for loop of insert from (i, j); [ok, table]
RECURSIVE FlatInsertFrom(_, _, _, _, _)
FlatInsertFrom(table, emptyValue, c, i, j) ==
    IF j = 0 THEN [ok |-> TRUE, table |-> table]
    ELSE LET i1 == IF Bit(c.code, j - 1) = 1 THEN i + 1 ELSE i
         IN  IF table[i1 + 1] # emptyValue
             THEN [ok |-> FALSE, table |-> table]
             ELSE FlatInsertFrom(IF j = 1 THEN [table EXCEPT ![i1 + 1] = c.value] ELSE table,
                                 emptyValue, c, i1 * 2 + 2, j - 1)

FlatInsert(table, emptyValue, depth, c) ==
    IF c.value = emptyValue \/ c.length > depth
    THEN [ok |-> FALSE, table |-> table]
    ELSE FlatInsertFrom(table, emptyValue, c, 0, c.length)

\* the do-while loop of decode from index i
RECURSIVE FlatDecodeFrom(_, _, _, _, _)
FlatDecodeFrom(p, table, emptyValue, i, r) ==
    UNION {IF ~b.ok THEN {b}
           ELSE LET i1 == i + b.v
                    ret == table[i1 + 1]
                    i2 == i1 * 2 + 2
                IN  IF ret = emptyValue /\ i2 < Len(table)
                    THEN FlatDecodeFrom(p, table, emptyValue, i2, b.r)
                    ELSE IF ret = emptyValue THEN {Thrown(b.r)}
                    ELSE {Returned(b.r, ret)}
           : b \in ReadBit(p, r)}

FlatDecode(p, table, emptyValue, r) == FlatDecodeFrom(p, table, emptyValue, 0, r)

(***************************************************************************)
(* HuffmanDecoder<T,emptyValue,0>: the dynamic variant.  _table is a       *)
(* sequence of nodes [sub, value], sub = <<sub[0], sub[1]>>; C++ index i   *)
(* is element i + 1.                                                       *)
(***************************************************************************)
DynNode(s0, s1, value) == [sub |-> <<s0, s1>>, value |-> value]

DynEmpty(emptyValue) == <<DynNode(0, 0, emptyValue)>>

\* the for loop of insert from (i, currentBit); length is Len(table)
RECURSIVE DynInsertFrom(_, _, _, _, _)
DynInsertFrom(table, emptyValue, c, i, currentBit) ==
    IF currentBit < 0 THEN [ok |-> TRUE, table |-> table]
    ELSE LET length == Len(table)
             codeBit == IF currentBit # 0 THEN Bit(c.code, currentBit - 1) ELSE 0
         IN  IF i = length
             THEN DynInsertFrom(
                      Append(table,
                             DynNode(IF currentBit # 0 /\ codeBit = 0 THEN length + 1 ELSE 0,
                                     IF currentBit # 0 /\ codeBit = 1 THEN length + 1 ELSE 0,
                                     IF currentBit # 0 THEN emptyValue ELSE c.value)),
                      emptyValue, c, i + 1, currentBit - 1)
             ELSE IF currentBit = 0 \/ table[i + 1].value # emptyValue
                  THEN [ok |-> FALSE, table |-> table]
                  ELSE LET tmp == table[i + 1].sub[codeBit + 1]
                       IN  IF tmp = 0
                           THEN DynInsertFrom([table EXCEPT ![i + 1].sub[codeBit + 1] = length],
                                              emptyValue, c, length, currentBit - 1)
                           ELSE DynInsertFrom(table, emptyValue, c, tmp, currentBit - 1)

DynInsert(table, emptyValue, c) ==
    IF c.value = emptyValue
    THEN [ok |-> FALSE, table |-> table]
    ELSE DynInsertFrom(table, emptyValue, c, 0, c.length)

\* the while loop of decode from node i, ret still emptyValue
RECURSIVE DynDecodeFrom(_, _, _, _, _)
DynDecodeFrom(p, table, emptyValue, i, r) ==
    IF ~(i < Len(table)) THEN {Thrown(r)}
    ELSE UNION {IF ~b.ok THEN {b}
                ELSE LET i1 == table[i + 1].sub[b.v + 1]
                         ret == table[i1 + 1].value
                     IN  IF i1 = 0
                         THEN (IF ret = emptyValue THEN {Thrown(b.r)} ELSE {Returned(b.r, ret)})
                         ELSE IF ret = emptyValue
                              THEN DynDecodeFrom(p, table, emptyValue, i1, b.r)
                              ELSE {Returned(b.r, ret)}
                : b \in ReadBit(p, r)}

DynDecode(p, table, emptyValue, r) == DynDecodeFrom(p, table, emptyValue, 0, r)

(***************************************************************************)
(* CRMDecompressor::CRMDecompressor.  The object is [ok, _rawSize,         *)
(* _packedSize, _isSampled, _isLZH]; ok = FALSE is InvalidFormatError.     *)
(***************************************************************************)
NoObject == [ok |-> FALSE, _rawSize |-> 0, _packedSize |-> 0,
             _isSampled |-> FALSE, _isLZH |-> FALSE]

\* Buffer::readBE32 on a header field (offset + 4 <= 14)
HeaderBE32(p, offset) ==
    BE32(HeaderByte(p, offset), HeaderByte(p, offset + 1),
         HeaderByte(p, offset + 2), HeaderByte(p, offset + 3))

\* the constructor with _isSampled taken from signature byte 1
CRMDecompressorSampledByte1(p) ==
    IF ~detectHeader(HeaderBE32(p, 0)) \/ p.size < 20
       \/ p.rawSize = 0 \/ p.packedSize = 0
       \/ p.rawSize > getMaxRawSize \/ p.packedSize > getMaxPackedSize
       \/ p.packedSize + 14 > p.size
    THEN NoObject
    ELSE [ok |-> TRUE, _rawSize |-> p.rawSize, _packedSize |-> p.packedSize,
          _isSampled |-> (p.sig[2] = Chm), _isLZH |-> (p.sig[4] = Ch2)]

\* the constructor without the test of the sizes against zero
CRMDecompressorNoZeroTest(p) ==
    IF ~detectHeader(HeaderBE32(p, 0)) \/ p.size < 20
       \/ p.rawSize > getMaxRawSize \/ p.packedSize > getMaxPackedSize
       \/ p.packedSize + 14 > p.size
    THEN NoObject
    ELSE [ok |-> TRUE, _rawSize |-> p.rawSize, _packedSize |-> p.packedSize,
          _isSampled |-> (p.sig[3] = Chm), _isLZH |-> (p.sig[4] = Ch2)]

CRMDecompressor(p) ==
    LET hdr == HeaderBE32(p, 0)
    IN  IF ~detectHeader(hdr) \/ p.size < 20 THEN NoObject
        ELSE LET rawSize == HeaderBE32(p, 6)
                 packedSize == HeaderBE32(p, 10)
             IN  IF rawSize = 0 \/ packedSize = 0
                    \/ rawSize > getMaxRawSize \/ packedSize > getMaxPackedSize
                    \/ packedSize + 14 > p.size
                 THEN NoObject
                 ELSE [ok |-> TRUE, _rawSize |-> rawSize, _packedSize |-> packedSize,
                       _isSampled |-> (Shr(hdr, 8) % 256 = Chm),
                       _isLZH |-> (hdr % 256 = Ch2)]

\* getName: names[(_isLZH?2:0)+(_isSampled?1:0)]; a name is kept as its
\* first four characters, the signature it names
getName(o) ==
    <<SigCrMBang, SigCrmBang, SigCrM2, SigCrm2>>[
        (IF o._isLZH THEN 2 ELSE 0) + (IF o._isSampled THEN 1 ELSE 0) + 1]

(***************************************************************************)
(* decompressImpl: the seed of the bit reader.                             *)
(***************************************************************************)
ReadBE32(p, offset) ==
    {WordBE32(b0, b1, b2, b3) : b0 \in ByteAt(p, offset), b1 \in ByteAt(p, offset + 1),
                            b2 \in ByteAt(p, offset + 2), b3 \in ByteAt(p, offset + 3)}

ReadBE16(p, offset) ==
    {BE16(b0, b1) : b0 \in ByteAt(p, offset), b1 \in ByteAt(p, offset + 1)}

\* originalBitsContent>>(16-originalShift).  The shift count is an int; for
\* originalShift > 16 it is negative and the shift is undefined: the result is
\* what the shift instruction gives, the count taken modulo 32 (x86), or
\* modulo 256 with a count of 32 and more giving 0 (ARM).
SeedShift(originalBitsContent, originalShift) ==
    IF originalShift <= 16
    THEN {WordShr(originalBitsContent, 16 - originalShift)}
    ELSE {WordShr(originalBitsContent, (16 - originalShift) % 32),
          IF (16 - originalShift) % 256 >= 32 THEN WordZero
          ELSE WordShr(originalBitsContent, (16 - originalShift) % 256)}

\* the readers decompressImpl can start from; w is
\* <<originalBitsContent, originalShift>>
SeedReaders(p, o) ==
    LET bufOffset == o._packedSize + 14 - 6
    IN  UNION {{[bufOffset |-> bufOffset,
                 bufBitsContent |-> content,
                 bufBitsLength |-> U8(w[2] + 16),
                 used |-> bufOffset .. (bufOffset + 5)]
                : content \in SeedShift(w[1], w[2])}
               : w \in ReadBE32(p, bufOffset) \X ReadBE16(p, bufOffset + 4)}

NoReader == [bufOffset |-> 0, bufBitsContent |-> WordZero, bufBitsLength |-> 0, used |-> {}]

(***************************************************************************)
(* The decoder state a step works on: st = [pc, rd, destOffset, written,   *)
(* lastCopy, lz], and the steps' helpers.                                  *)
(***************************************************************************)
NoCopy == [destOffset |-> 0, count |-> 0, distance |-> 0, steps |-> <<>>]

NoLz == [tbl |-> 0, maxDepth |-> 0, lengthTable |-> <<>>, depth |-> 0, i |-> 0,
         code |-> 0, items |-> 0, lengthDecoder |-> <<>>, distanceDecoder |-> <<>>,
         runLeft |-> 0]

Range(f) == {f[k] : k \in DOMAIN f}

\* throw Decompressor::DecompressionError() with the reader as it is
Throw(st, r) == [st EXCEPT !.pc = "error", !.rd = r]

\* run F on every result of S that returned; a throw ends the step
Bind(S, st, F(_)) == UNION {IF x.ok THEN F(x) ELSE {Throw(st, x.r)} : x \in S}

\* a write that does not move destOffset
WriteByteInPlace(st) ==
    [st EXCEPT !.written = Append(@, st.destOffset - 1)]

\* dest[--destOffset]=<byte>
WriteByte(st) ==
    [st EXCEPT !.destOffset = @ - 1, !.written = Append(@, st.destOffset - 1)]

\* for (i=0;i<count;i++) dest[--destOffset]=dest[--distance];
\* each step logs the index written, the index read and whether that index
\* had been written before
RECURSIVE CopyLoop(_, _, _, _, _)
CopyLoop(n, d, src, wr, log) ==
    IF n = 0 THEN [destOffset |-> d, written |-> wr, steps |-> log]
    ELSE CopyLoop(n - 1, d - 1, src - 1, Append(wr, d - 1),
                  Append(log, [w |-> d - 1, r |-> src - 1,
                               rWritten |-> (src - 1) \in Range(wr)]))

\* distance+=destOffset; followed by the copy loop
MatchCopy(st, count, distance) ==
    LET c == CopyLoop(count, st.destOffset, distance + st.destOffset, st.written, <<>>)
    IN  [st EXCEPT !.destOffset = c.destOffset, !.written = c.written,
                   !.lastCopy = [destOffset |-> st.destOffset, count |-> count,
                                 distance |-> distance, steps |-> c.steps]]

(***************************************************************************)
(* Standard mode.                                                          *)
(***************************************************************************)
StdEmpty == 255

RECURSIVE FlatFromList(_, _, _, _)
FlatFromList(table, emptyValue, depth, list) ==
    IF list = <<>> THEN table
    ELSE FlatFromList(FlatInsert(table, emptyValue, depth, Head(list)).table,
                      emptyValue, depth, Tail(list))

HC(length, code, value) == [length |-> length, code |-> code, value |-> value]

StdLengthDecoder ==
    FlatFromList(FlatEmpty(3, StdEmpty), StdEmpty, 3,
                 <<HC(1, 0, 0), HC(2, 2, 1), HC(3, 6, 2), HC(3, 7, 3)>>)

StdDistanceDecoder ==
    FlatFromList(FlatEmpty(2, StdEmpty), StdEmpty, 2,
                 <<HC(1, 0, 0), HC(2, 2, 1), HC(2, 3, 2)>>)

lengthBits == <<1, 2, 4, 8>>
lengthAdditions == <<2, 4, 8, 24>>
distanceBits == <<9, 5, 14>>
distanceAdditions == <<32, 0, 544>>

\* the length decode without if (count>23) count--;
StdLengthNoDecrement(lengthIndex, extra) ==
    LET count == extra + lengthAdditions[lengthIndex + 1]
    IN  [run |-> count = 23, count |-> count]

\* from count=readBits(lengthBits[lengthIndex])+lengthAdditions[lengthIndex]
\* to the branch taken: the literal run, or a match of the adjusted count
StdLength(lengthIndex, extra) ==
    LET count == extra + lengthAdditions[lengthIndex + 1]
    IN  IF count = 23 THEN [run |-> TRUE, count |-> count]
        ELSE [run |-> FALSE, count |-> IF count > 23 THEN count - 1 ELSE count]

\* the loop test of while (destOffset)
StdLoop(st) == [st EXCEPT !.pc = IF st.destOffset # 0 THEN "std" ELSE "check"]

\* the literal run branch, up to the test before its loop
StdRunHead(p, st, r, rawSize) ==
    Bind(ReadBit(p, r), st, LAMBDA sel :
      Bind(ReadBits(p, sel.r, IF sel.v = 1 THEN 5 ELSE 14), st, LAMBDA rc :
        LET count == rc.v + 15
        IN  IF count > st.destOffset THEN {Throw(st, rc.r)}
            ELSE {[st EXCEPT !.rd = rc.r, !.pc = "stdRun", !.lz.runLeft = count]}))

\* the match branch without the test of destOffset+distance against _rawSize
StdMatchNoReachTest(p, st, r, count, rawSize) ==
    Bind(FlatDecode(p, StdDistanceDecoder, StdEmpty, r), st, LAMBDA di :
      Bind(ReadBits(p, di.r, distanceBits[di.v + 1]), st, LAMBDA dr :
        LET distance == dr.v + distanceAdditions[di.v + 1]
        IN  IF distance = 0 \/ st.destOffset < count
            THEN {Throw(st, dr.r)}
            ELSE {StdLoop(MatchCopy([st EXCEPT !.rd = dr.r], count, distance))}))

\* the match branch
StdMatch(p, st, r, count, rawSize) ==
    Bind(FlatDecode(p, StdDistanceDecoder, StdEmpty, r), st, LAMBDA di :
      Bind(ReadBits(p, di.r, distanceBits[di.v + 1]), st, LAMBDA dr :
        LET distance == dr.v + distanceAdditions[di.v + 1]
        IN  IF distance = 0 \/ st.destOffset < count \/ st.destOffset + distance > rawSize
            THEN {Throw(st, dr.r)}
            ELSE {StdLoop(MatchCopy([st EXCEPT !.rd = dr.r], count, distance))}))

\* one iteration of while (destOffset): the states it can end in
StdIteration(p, st0, rawSize) ==
    LET st == [st0 EXCEPT !.lastCopy = NoCopy]
    IN  Bind(ReadBit(p, st.rd), st, LAMBDA b :
          IF b.v = 1
          THEN Bind(ReadBits(p, b.r, 8), st, LAMBDA lit :
                 {StdLoop(WriteByte([st EXCEPT !.rd = lit.r]))})
          ELSE Bind(FlatDecode(p, StdLengthDecoder, StdEmpty, b.r), st, LAMBDA li :
                 Bind(ReadBits(p, li.r, lengthBits[li.v + 1]), st, LAMBDA ex :
                   LET len == StdLength(li.v, ex.v)
                   IN  IF len.run THEN StdRunHead(p, st, ex.r, rawSize)
                       ELSE StdMatch(p, st, ex.r, len.count, rawSize))))

\* one iteration of the literal run: dest[--destOffset]=readBits(8);
StdRunIteration(p, st) ==
    Bind(ReadBits(p, st.rd, 8), st, LAMBDA lit :
      LET s1 == WriteByte([st EXCEPT !.rd = lit.r, !.lz.runLeft = @ - 1])
      IN  {IF s1.lz.runLeft = 0 THEN StdLoop(s1) ELSE s1})

(***************************************************************************)
(* LZH mode.                                                               *)
(***************************************************************************)
LzhEmpty == 512

\* the codeLength argument of the two readHuffmanTable calls
CodeLength(tbl) == IF tbl = 1 THEN 9 ELSE 4

\* the top of the do loop: CRMHuffmanDecoder lengthDecoder,distanceDecoder;
LzhBlock(st) ==
    [st EXCEPT !.pc = "lzhTable",
               !.lz = [NoLz EXCEPT !.tbl = 1,
                                   !.lengthDecoder = DynEmpty(LzhEmpty),
                                   !.distanceDecoder = DynEmpty(LzhEmpty)]]

\* readHuffmanTable returned: the second call, or items=readBits(16)+1
LzhTableDone(st) ==
    IF st.lz.tbl = 1
    THEN [st EXCEPT !.pc = "lzhTable", !.lz.tbl = 2]
    ELSE [st EXCEPT !.pc = "lzhItems"]

\* the loop tests of the two nested for loops of readHuffmanTable
RECURSIVE LzhInsertLoop(_)
LzhInsertLoop(st) ==
    IF st.lz.depth > st.lz.maxDepth THEN LzhTableDone(st)
    ELSE IF st.lz.i < st.lz.lengthTable[st.lz.depth] THEN [st EXCEPT !.pc = "lzhIns"]
    ELSE LzhInsertLoop([st EXCEPT !.lz.depth = @ + 1, !.lz.i = 0])

\* uint32_t maxDepth=readBits(4); if (!maxDepth) throw ...
LzhTableStart(p, st) ==
    Bind(ReadBits(p, st.rd, 4), st, LAMBDA m :
      IF m.v = 0 THEN {Throw(st, m.r)}
      ELSE {[st EXCEPT !.rd = m.r, !.pc = "lzhLen", !.lz.maxDepth = m.v,
                       !.lz.lengthTable = <<>>, !.lz.i = 0]})

\* lengthTable[i]=readBits(std::min(i+1,codeLength));
LzhTableLength(p, st) ==
    Bind(ReadBits(p, st.rd, Min(st.lz.i + 1, CodeLength(st.lz.tbl))), st, LAMBDA n :
      LET s1 == [st EXCEPT !.rd = n.r, !.lz.lengthTable = Append(@, n.v), !.lz.i = @ + 1]
      IN  {IF s1.lz.i < s1.lz.maxDepth THEN s1
           ELSE LzhInsertLoop([s1 EXCEPT !.lz.depth = 1, !.lz.i = 0, !.lz.code = 0])})

\* value=readBits(codeLength); dec.insert(...); code+=1<<(maxDepth-depth);
LzhTableInsert(p, st) ==
    Bind(ReadBits(p, st.rd, CodeLength(st.lz.tbl)), st, LAMBDA val :
      LET lzv == st.lz
          c == HC(lzv.depth, Shr(lzv.code, lzv.maxDepth - lzv.depth), val.v)
          ins == DynInsert(IF lzv.tbl = 1 THEN lzv.lengthDecoder ELSE lzv.distanceDecoder,
                           LzhEmpty, c)
      IN  IF ~ins.ok THEN {Throw(st, val.r)}
          ELSE {LzhInsertLoop(
                   [st EXCEPT !.rd = val.r,
                              !.lz.lengthDecoder = IF lzv.tbl = 1 THEN ins.table ELSE @,
                              !.lz.distanceDecoder = IF lzv.tbl = 2 THEN ins.table ELSE @,
                              !.lz.code = @ + Pow2(lzv.maxDepth - lzv.depth),
                              !.lz.i = @ + 1])})

\* the token count without the +1
LzhItemsNoPlusOne(p, st) ==
    Bind(ReadBits(p, st.rd, 16), st, LAMBDA n :
      {[st EXCEPT !.rd = n.r, !.pc = "lzhTok", !.lz.items = n.v, !.lz.i = 0]})

\* uint32_t items=readBits(16)+1;
LzhItems(p, st) ==
    Bind(ReadBits(p, st.rd, 16), st, LAMBDA n :
      {[st EXCEPT !.rd = n.r, !.pc = "lzhTok", !.lz.items = n.v + 1, !.lz.i = 0]})

\* i++ and the test i<items of the token loop
LzhNext(st) ==
    LET s1 == [st EXCEPT !.lz.i = @ + 1]
    IN  [s1 EXCEPT !.pc = IF s1.lz.i < s1.lz.items THEN "lzhTok" ELSE "lzhCont"]

\* the length added to a match symbol: count+=3;
LzhCount(symbol) == symbol + 3

\* one iteration of the token loop
LzhToken(p, st0, rawSize) ==
    LET st == [st0 EXCEPT !.lastCopy = NoCopy]
    IN  Bind(DynDecode(p, st.lz.lengthDecoder, LzhEmpty, st.rd), st, LAMBDA c :
          IF Bit(c.v, 8) = 1
          THEN IF st.destOffset = 0 THEN {Throw(st, c.r)}
               ELSE {LzhNext(WriteByte([st EXCEPT !.rd = c.r]))}
          ELSE Bind(DynDecode(p, st.lz.distanceDecoder, LzhEmpty, c.r), st, LAMBDA db :
                 Bind(ReadBits(p, db.r, IF db.v = 0 THEN 1 ELSE db.v), st, LAMBDA x :
                   LET count == LzhCount(c.v)
                       distance == IF db.v = 0 THEN x.v + 1
                                   ELSE BitOr(x.v, Pow2(db.v)) + 1
                   IN  IF st.destOffset < count \/ st.destOffset + distance > rawSize
                       THEN {Throw(st, x.r)}
                       ELSE {LzhNext(MatchCopy([st EXCEPT !.rd = x.r], count, distance))})))

\* } while (readBit());
LzhCont(p, st) ==
    Bind(ReadBit(p, st.rd), st, LAMBDA b :
      {IF b.v = 1 THEN LzhBlock([st EXCEPT !.rd = b.r])
       ELSE [st EXCEPT !.rd = b.r, !.pc = "check"]})

(***************************************************************************)
(* The actions of Spec: construction and one decompress call.              *)
(***************************************************************************)
Cur == [pc |-> pc, rd |-> rd, destOffset |-> destOffset, written |-> written,
        lastCopy |-> lastCopy, lz |-> lz]

Become(st) ==
    /\ pc' = st.pc
    /\ rd' = st.rd
    /\ destOffset' = st.destOffset
    /\ written' = st.written
    /\ lastCopy' = st.lastCopy
    /\ lz' = st.lz

Max(a, b) == IF a > b THEN a ELSE b

\* the packed buffers Spec starts from: the two standard-mode signatures with
\* sizes that reach the caps (a literal run needs 15 raw bytes), the two LZH
\* signatures with small sizes, and two signatures detectHeader refuses; each
\* one also with its last byte cut off
StdSigs == {SigCrMBang, SigCrmBang}

LzhSigs == {SigCrM2, SigCrm2}

BadSigs == {SigXpkCRM2, SigCmMBang}

StdRawSizes == {0, 1, SmallRaw, MaxRaw, MaxRaw + 1}

StdPackedSizes == {0, 1, 5, 6, SmallPacked, MaxPacked, MaxPacked + 1}

LzhRawSizes == {0, SmallRaw, MaxRaw + 1}

LzhPackedSizes == {0, 1, 5, 6, SmallPacked, MaxPacked + 1}

InputSizes ==
    (StdSigs \X StdRawSizes \X StdPackedSizes)
        \cup (LzhSigs \X LzhRawSizes \X LzhPackedSizes)
        \cup (BadSigs \X {SmallRaw} \X {SmallPacked})

PackedInputs ==
    {[size |-> Max(20, i[3] + 14) - short, sig |-> i[1], rawSize |-> i[2],
      packedSize |-> i[3]] : short \in {0, 1}, i \in InputSizes}

\* rawData.size() of the call, given _rawSize
RawDataSizes(rawSize) == {rawSize - 1, rawSize}

Construct ==
    /\ pc = "new"
    /\ obj' = CRMDecompressor(packed)
    /\ pc' = IF obj'.ok THEN "ready" ELSE "invalid"
    /\ UNCHANGED <<packed, rawDataSize, rd, destOffset, written, lastCopy, lz, huff, ls>>

\* decompressImpl up to the first loop
DecompressStart ==
    /\ pc = "ready"
    /\ \E size \in RawDataSizes(obj._rawSize) :
         /\ rawDataSize' = size
         /\ IF size < obj._rawSize
            THEN Become([Cur EXCEPT !.pc = "error"])
            ELSE \E r \in SeedReaders(packed, obj) :
                   LET st == [Cur EXCEPT !.rd = r, !.destOffset = obj._rawSize]
                   IN  Become(IF obj._isLZH THEN LzhBlock(st) ELSE StdLoop(st))
    /\ UNCHANGED <<packed, obj, huff, ls>>

Step(outcomes) ==
    /\ \E st \in outcomes : Become(st)
    /\ UNCHANGED <<packed, obj, rawDataSize, huff, ls>>

StdTokenStep == pc = "std" /\ Step(StdIteration(packed, Cur, obj._rawSize))

StdRunStep == pc = "stdRun" /\ Step(StdRunIteration(packed, Cur))

LzhTableStartStep == pc = "lzhTable" /\ Step(LzhTableStart(packed, Cur))

LzhTableLengthStep == pc = "lzhLen" /\ Step(LzhTableLength(packed, Cur))

LzhTableInsertStep == pc = "lzhIns" /\ Step(LzhTableInsert(packed, Cur))

LzhItemsStep == pc = "lzhItems" /\ Step(LzhItems(packed, Cur))

LzhTokenStep == pc = "lzhTok" /\ Step(LzhToken(packed, Cur, obj._rawSize))

LzhContStep == pc = "lzhCont" /\ Step(LzhCont(packed, Cur))

\* if (destOffset) throw Decompressor::DecompressionError();
\* if (_isSampled) ...
FinalCheck ==
    /\ pc = "check"
    /\ Step({[Cur EXCEPT !.pc = IF destOffset # 0 THEN "error"
                                 ELSE IF obj._isSampled THEN "delta" ELSE "done"]})

\* DLTADecode::decode(rawData,rawData,0,_rawSize): rewrites the bytes of
\* dest in place; the model keeps no byte values
DeltaDecode ==
    /\ pc = "delta"
    /\ Step({[Cur EXCEPT !.pc = "done"]})

NoHuff == [flat |-> <<>>, dyn |-> <<>>, flatCodes |-> <<>>, dynCodes |-> <<>>, n |-> 0,
           last |-> [op |-> "none"]]

NoLs == [lengthIndex |-> 0, extra |-> 0, matches |-> {}, runs |-> {}]

Init ==
    /\ pc = "new"
    /\ packed \in PackedInputs
    /\ obj = NoObject
    /\ rawDataSize = 0
    /\ rd = NoReader
    /\ destOffset = 0
    /\ written = <<>>
    /\ lastCopy = NoCopy
    /\ lz = NoLz
    /\ huff = NoHuff
    /\ ls = NoLs

Next ==
    \/ Construct
    \/ DecompressStart
    \/ StdTokenStep
    \/ StdRunStep
    \/ LzhTableStartStep
    \/ LzhTableLengthStep
    \/ LzhTableInsertStep
    \/ LzhItemsStep
    \/ LzhTokenStep
    \/ LzhContStep
    \/ FinalCheck
    \/ DeltaDecode

Spec == Init /\ [][Next]_vars

(***************************************************************************)
(* Properties of Spec.                                                     *)
(***************************************************************************)
\* decompressImpl has passed its first line and seeded the bit reader
Seeded == pc \in {"std", "stdRun", "lzhTable", "lzhLen", "lzhIns", "lzhItems", "lzhTok",
                  "lzhCont", "check", "delta", "done"}
              \/ (pc = "error" /\ rawDataSize >= obj._rawSize)

\* C1: a match copy, in either mode, runs with count <= destOffset,
\* destOffset + distance <= rawSize and distance >= 1, and every index its
\* loop reads is below rawSize, above the index written in the same step,
\* and was written earlier in the decode.
C1_MatchCopyInBounds ==
    lastCopy.count > 0 =>
        /\ lastCopy.count <= lastCopy.destOffset
        /\ lastCopy.destOffset + lastCopy.distance <= obj._rawSize
        /\ lastCopy.distance >= 1
        /\ Len(lastCopy.steps) = lastCopy.count
        /\ \A k \in DOMAIN lastCopy.steps :
              LET s == lastCopy.steps[k]
              IN  s.r < obj._rawSize /\ s.r > s.w /\ s.w >= 0 /\ s.rWritten

\* an LZH match copy whose source overlaps its destination has run
C1_Witness ==
    /\ obj._isLZH
    /\ lastCopy.count > lastCopy.distance
    /\ lastCopy.distance >= 1

\* C2: the main decode writes dest at rawSize-1, rawSize-2, ... in strictly
\* decreasing order, never twice and never outside [0, rawSize); when
\* decompressImpl passes its final test destOffset is 0 and every index of
\* [0, rawSize) has been written once.
C2_WritesDescend ==
    /\ \A k \in DOMAIN written : written[k] = obj._rawSize - k /\ written[k] >= 0
    /\ Seeded => destOffset = obj._rawSize - Len(written)
    /\ pc \in {"delta", "done"} => destOffset = 0 /\ Len(written) = obj._rawSize

\* a standard-mode decode of MaxRaw bytes, a literal run among them, returned
C2_Witness ==
    /\ pc = "done"
    /\ ~obj._isLZH
    /\ Len(written) = MaxRaw

\* the conditions under which the spec says construction fails
Violated(p) ==
    \/ p.sig \notin {SigCrMBang, SigCrM2, SigCrmBang, SigCrm2}
    \/ p.size < 20
    \/ p.rawSize = 0
    \/ p.packedSize = 0
    \/ p.rawSize > MaxRaw
    \/ p.packedSize > MaxPacked
    \/ p.packedSize + 14 > p.size

\* C3 (as the code has it): on construction from an accepted signature,
\* isSampled is set exactly when the third signature byte (byte 2) is 'm' and
\* isLZH exactly when the fourth (byte 3) is '2'; getName names the signature.
C3_FlagsFromBytes2And3 ==
    obj.ok =>
        /\ obj._isSampled <=> packed.sig[3] = Chm
        /\ obj._isLZH <=> packed.sig[4] = Ch2
        /\ getName(obj) = packed.sig

\* an object constructed from Crm! is sampled and not LZH
C3_Witness ==
    /\ obj.ok
    /\ packed.sig = SigCrmBang
    /\ obj._isSampled
    /\ ~obj._isLZH

\* C3 (as stated): isSampled is set exactly when the second signature byte
\* (byte 1) is 'm', and isLZH exactly when the fourth (byte 3) is '2'.
C3_FlagsFromBytes1And3 ==
    obj.ok =>
        /\ obj._isSampled <=> packed.sig[2] = Chm
        /\ obj._isLZH <=> packed.sig[4] = Ch2

\* C4: construction fails, with InvalidFormatError, exactly when a validity
\* condition is violated (signature, P < 20, a zero size, a size above its
\* cap, packedSize + 14 > P) and succeeds otherwise; decompress never raises
\* InvalidFormatError and construction never raises DecompressionError.
C4_ConstructionFailsExactly ==
    /\ pc # "new" => (obj.ok <=> ~Violated(packed))
    /\ pc = "invalid" <=> (pc # "new" /\ ~obj.ok)
    /\ pc = "invalid" => rawDataSize = 0 /\ rd = NoReader /\ written = <<>>
    /\ obj.ok => obj._rawSize = packed.rawSize /\ obj._packedSize = packed.packedSize

\* a buffer refused only because it is shorter than packedSize + 14
C4_Witness ==
    /\ pc = "invalid"
    /\ packed.sig = SigCrM2
    /\ packed.size >= 20
    /\ packed.rawSize \in 1..MaxRaw
    /\ packed.packedSize \in 1..MaxPacked
    /\ packed.packedSize + 14 > packed.size

\* C7: every byte decompressImpl takes as compressed data, the six bytes of
\* the seed and every byte of a refill, has its index in
\* [14, packedSize + 14).
C7_DataInPayload ==
    \A i \in rd.used : 14 <= i /\ i < obj._packedSize + 14

\* C10: in every state of the bit reader, bufBitsLength <= 32 and
\* bufBitsContent has no bit set at or above position bufBitsLength.
C10_ReaderInvariant ==
    Seeded =>
        /\ rd.bufBitsLength <= 32
        /\ \A k \in 1..32 : k > rd.bufBitsLength => rd.bufBitsContent[k] = 0

(***************************************************************************)
(* SpecHuff: the two HuffmanDecoder variants on their own.  Starting from  *)
(* empty tables the same insert is made on both, and decode is run on both *)
(* over a bit source of a few bits.  The flat variant is the instantiation *)
(* HuffmanDecoder<uint8_t,0xffU,2>, the dynamic one is CRMHuffmanDecoder.  *)
(***************************************************************************)
\* the depth parameter of the flat instantiation
HuffDepth == 2

\* number of insert calls on one pair of tables
MaxInserts == 3

\* the codes offered to insert as call number n: every code of length 0 to
\* HuffDepth with value n, one code longer than HuffDepth, and one code
\* with the empty value of each variant
HuffCodes(n) ==
    UNION {{HC(l, c, n) : c \in 0..(Pow2(l) - 1)} : l \in 0..HuffDepth}
        \cup {HC(HuffDepth + 1, 0, n), HC(1, 0, StdEmpty), HC(1, 0, LzhEmpty)}

\* a bit source holding exactly the bits of s, first bit first: a reader
\* whose buffer is s and whose bufOffset allows no refill
BitSource(s) ==
    [bufOffset |-> 14,
     bufBitsContent |-> [k \in 1..32 |-> IF k <= Len(s) THEN s[k] ELSE 0],
     bufBitsLength |-> Len(s),
     used |-> {}]

\* the bit sources decode is run on: every bit string of 0 to HuffDepth + 1 bits
BitStrings == UNION {[1..n -> {0, 1}] : n \in 0..(HuffDepth + 1)}

\* the packed buffer of SpecHuff; no byte of it is read
HuffPacked == [size |-> 20, sig |-> SigCrMBang, rawSize |-> 1, packedSize |-> 6]

HuffInit ==
    /\ pc = "huff"
    /\ packed = HuffPacked
    /\ obj = NoObject
    /\ rawDataSize = 0
    /\ rd = NoReader
    /\ destOffset = 0
    /\ written = <<>>
    /\ lastCopy = NoCopy
    /\ lz = NoLz
    /\ huff = [flat |-> FlatEmpty(HuffDepth, StdEmpty), dyn |-> DynEmpty(LzhEmpty),
               flatCodes |-> <<>>, dynCodes |-> <<>>, n |-> 0,
               last |-> [op |-> "none"]]
    /\ ls = NoLs

\* insert(c) on both tables; a throw leaves the count of stored codes as it was
HuffInsert ==
    /\ pc = "huff"
    /\ huff.n < MaxInserts
    /\ \E c \in HuffCodes(huff.n + 1) :
         LET f == FlatInsert(huff.flat, StdEmpty, HuffDepth, c)
             d == DynInsert(huff.dyn, LzhEmpty, c)
         IN  huff' = [flat |-> f.table, dyn |-> d.table,
                      flatCodes |-> IF f.ok THEN Append(huff.flatCodes, c) ELSE huff.flatCodes,
                      dynCodes |-> IF d.ok THEN Append(huff.dynCodes, c) ELSE huff.dynCodes,
                      n |-> huff.n + 1,
                      last |-> [op |-> "insert", c |-> c, flatOk |-> f.ok, dynOk |-> d.ok,
                                flatBefore |-> huff.flat, dynBefore |-> huff.dyn]]
    /\ UNCHANGED <<pc, packed, obj, rawDataSize, rd, destOffset, written, lastCopy, lz, ls>>

\* what a decode call did: thrown or the value returned, and the bits consumed
DecodeResult(s, x) == [ok |-> x.ok, v |-> x.v, consumed |-> Len(s) - x.r.bufBitsLength]

\* decode(readBit) on both tables over the same bit source
HuffDecode ==
    /\ pc = "huff"
    /\ \E s \in BitStrings :
         \E f \in FlatDecode(packed, huff.flat, StdEmpty, BitSource(s)),
            d \in DynDecode(packed, huff.dyn, LzhEmpty, BitSource(s)) :
           huff' = [huff EXCEPT !.last = [op |-> "decode", bits |-> s,
                                          flat |-> DecodeResult(s, f),
                                          dyn |-> DecodeResult(s, d)]]
    /\ UNCHANGED <<pc, packed, obj, rawDataSize, rd, destOffset, written, lastCopy, lz, ls>>

HuffNext ==
    \/ HuffInsert
    \/ HuffDecode

SpecHuff == HuffInit /\ [][HuffNext]_vars

\* code a is code b or a proper prefix of it
IsPrefix(a, b) ==
    a.length <= b.length /\ Shr(b.code, b.length - a.length) = a.code

\* no code of the sequence is equal to, a prefix of, or an extension of another
PrefixFree(codes) ==
    \A i, j \in DOMAIN codes : i # j => ~IsPrefix(codes[i], codes[j])

\* a failed insert left the table as it was
FailedInsertKeepsTable ==
    huff.last.op = "insert" =>
        /\ ~huff.last.flatOk => huff.flat = huff.last.flatBefore
        /\ ~huff.last.dynOk => huff.dyn = huff.last.dynBefore

\* C5: in both variants the codes whose insert succeeded are prefix-free, in
\* whatever order they were inserted, and a failed insert leaves the table
\* unchanged.
C5_InsertedPrefixFree ==
    /\ PrefixFree(huff.flatCodes)
    /\ PrefixFree(huff.dynCodes)
    /\ FailedInsertKeepsTable

\* the bits s begin with code c
Spells(s, c) ==
    c.length <= Len(s) /\ \A k \in 1..c.length : s[k] = Bit(c.code, c.length - k)

\* decode did what C6 says on a table holding the prefix-free codes: the
\* value of the code the bits spell after exactly its length in bits, or a
\* throw when they spell none, after at most maxBits bits
DecodesAsInserted(codes, s, res, emptyValue, maxBits) ==
    PrefixFree(codes) =>
        /\ \A k \in DOMAIN codes :
              Spells(s, codes[k]) =>
                  res.ok /\ res.v = codes[k].value /\ res.consumed = codes[k].length
        /\ (\A k \in DOMAIN codes : ~Spells(s, codes[k])) =>
                  ~res.ok /\ res.consumed <= maxBits
        /\ res.ok => res.v # emptyValue

\* C6: in both variants, on a table built by successful inserts of a
\* prefix-free set of codes, decode returns the value inserted with the code
\* the next bits spell and consumes exactly its length; when they spell no
\* inserted code it throws (the flat variant within HuffDepth bits) and it
\* never returns the empty value.
C6_DecodeReturnsInserted ==
    huff.last.op = "decode" =>
        /\ DecodesAsInserted(huff.flatCodes, huff.last.bits, huff.last.flat,
                             StdEmpty, HuffDepth)
        /\ DecodesAsInserted(huff.dynCodes, huff.last.bits, huff.last.dyn,
                             LzhEmpty, Len(huff.last.bits))

(***************************************************************************)
(* SpecLen: the standard-mode length decode over every length class and    *)
(* every value of its extra bits, one pair a step, in increasing order.    *)
(* ls keeps the pair to decode next and, for every pair decoded, the       *)
(* branch it took and the count it gave.                                   *)
(***************************************************************************)
LenInit ==
    /\ pc = "len"
    /\ packed = HuffPacked
    /\ obj = NoObject
    /\ rawDataSize = 0
    /\ rd = NoReader
    /\ destOffset = 0
    /\ written = <<>>
    /\ lastCopy = NoCopy
    /\ lz = NoLz
    /\ huff = NoHuff
    /\ ls = NoLs

\* the length decode of the pair (ls.lengthIndex, ls.extra)
LenStep ==
    /\ pc = "len"
    /\ ls.lengthIndex < Len(lengthBits)
    /\ LET len == StdLength(ls.lengthIndex, ls.extra)
           pair == [lengthIndex |-> ls.lengthIndex, extra |-> ls.extra, count |-> len.count]
           last == ls.extra + 1 = Pow2(lengthBits[ls.lengthIndex + 1])
       IN  ls' = [lengthIndex |-> IF last THEN ls.lengthIndex + 1 ELSE ls.lengthIndex,
                  extra |-> IF last THEN 0 ELSE ls.extra + 1,
                  matches |-> IF len.run THEN ls.matches ELSE ls.matches \cup {pair},
                  runs |-> IF len.run THEN ls.runs \cup {pair} ELSE ls.runs]
    /\ UNCHANGED <<pc, packed, obj, rawDataSize, rd, destOffset, written, lastCopy, lz, huff>>

LenNext == LenStep

SpecLen == LenInit /\ [][LenNext]_vars

\* the count as read: the extra bits plus the addition of the class
RawCount(pair) == pair.extra + lengthAdditions[pair.lengthIndex + 1]

\* C8: over every length class and every value of its extra bits, a raw
\* count of 23 selects the literal run and never a match, a raw count above
\* 23 reaches the copy loop decremented by one, and the match lengths are
\* exactly 2..278, each given by exactly one (class, extra bits) pair.
C8_LengthAlphabet ==
    /\ \A r \in ls.runs : RawCount(r) = 23
    /\ \A m \in ls.matches :
          /\ RawCount(m) # 23
          /\ m.count = IF RawCount(m) > 23 THEN RawCount(m) - 1 ELSE RawCount(m)
    /\ Cardinality({m.count : m \in ls.matches}) = Cardinality(ls.matches)
    /\ ls.lengthIndex = Len(lengthBits) =>
          /\ {m.count : m \in ls.matches} = 2..278
          /\ Cardinality(ls.runs) = 1

\* the scan has decoded every pair
C8_Witness ==
    /\ ls.lengthIndex = Len(lengthBits)
    /\ Cardinality(ls.matches) = 277
    /\ ls.runs = {[lengthIndex |-> 2, extra |-> 15, count |-> 23]}

(***************************************************************************)
(* Termination of the call, as a measure that every step lowers.           *)
(***************************************************************************)
\* how far the call is from its end: 5 before construction, 4 before the
\* call, 3 in the decode loops, 2 at the final test, 1 at the delta decode,
\* 0 once it has returned or thrown
Phase ==
    CASE pc = "new" -> 5
      [] pc = "ready" -> 4
      [] pc \in {"std", "stdRun", "lzhTable", "lzhLen", "lzhIns", "lzhItems", "lzhTok",
                 "lzhCont"} -> 3
      [] pc = "check" -> 2
      [] pc = "delta" -> 1
      [] OTHER -> 0

\* a bound on the bits the reader can still deliver: the buffered ones and
\* those of the bytes below bufOffset
BitsLeft == 8 * rd.bufOffset + rd.bufBitsLength

\* what one step of the decode does to destOffset, to the token count of
\* an LZH block and to bufOffset
StepProgress ==
    /\ pc = "std" =>
          \/ pc' = "error"
          \/ destOffset' < destOffset
          \/ pc' = "stdRun" /\ lz'.runLeft >= 1 /\ lz'.runLeft <= destOffset
    /\ pc = "stdRun" =>
          \/ pc' = "error"
          \/ destOffset' < destOffset /\ lz'.runLeft < lz.runLeft
    /\ pc = "lzhTok" => pc' = "error" \/ destOffset' < destOffset
    /\ pc = "lzhItems" => pc' = "error" \/ (pc' = "lzhTok" /\ lz'.items >= 1)
    /\ Phase = 3 =>
          /\ rd'.bufOffset <= rd.bufOffset
          /\ rd'.used # rd.used => rd'.bufOffset < rd.bufOffset

\* a step brings the call nearer to its end: to a later phase, or within the
\* decode loops to fewer bits left; the call ends returning with
\* destOffset = 0 or throwing
StepTowardsEnd ==
    /\ Phase' < Phase \/ (Phase' = Phase /\ BitsLeft' < BitsLeft /\ BitsLeft' >= 0)
    /\ Phase' = 0 => pc' \in {"invalid", "error"} \/ (pc' = "done" /\ destOffset' = 0)

\* C9: decompress terminates on every accepted stream in both modes: every
\* standard-mode iteration and every LZH token lowers destOffset or throws,
\* an LZH block holds at least one token, a refill lowers bufOffset, and
\* every step brings the call nearer to its end, which is a return with
\* destOffset = 0 or a DecompressionError.
C9_Terminates == [][StepProgress /\ StepTowardsEnd]_vars

\* an LZH decode of more than one token has returned
C9_Witness ==
    /\ pc = "done"
    /\ obj._isLZH
    /\ lz.items >= 2
    /\ destOffset = 0

====
